---- MODULE Spec2Model ----
(***************************************************************************)
(* ZonoCaller: the fetch / compare / persist / update cycle of the         *)
(* Fetcher (Fetcher.FetchIP and the functions it calls), as a state        *)
(* machine.  One step of the machine is one call of FetchIP's helpers; a   *)
(* retried HTTP operation takes one step per iteration of the loop of      *)
(* backoff.RetryNotify (one attempt, followed by the decision to wait and  *)
(* retry or to give up).                                                   *)
(*                                                                         *)
(* Time is counted in seconds.  The environment chooses, for every HTTP    *)
(* attempt, the response and how long the attempt took (no time, or the    *)
(* client's timeout).  The wait between two attempts is the backoff's      *)
(* current interval; its randomisation, which only stretches or shrinks    *)
(* the wait, is left out.                                                  *)
(***************************************************************************)
EXTENDS Integers, Sequences, FiniteSets, TLC

\* ------------------------------------------------------------ bounds
\* Number of cycles (invocations of FetchIP) explored.
MaxCycles == 2
\* Largest MAX_RETRIES setting explored.
MaxRetriesBound == 2
\* The longest value of ZONOMI_HOSTS, in characters.
MaxHostsLen == 4

\* --------------------------------------------------- program constants
\* backoff.WithInitialInterval(1*time.Second)
InitialInterval == 1
\* backoff.WithMaxInterval(10*time.Second)
MaxInterval == 10
\* backoff.WithMaxElapsedTime(30*time.Second)
MaxElapsedTime == 30
\* http.Client{Timeout: 10 * time.Second}
ClientTimeout == 10
\* http.StatusOK
StatusOK == 200
\* Stands for 2^64 in uint64(f.config.MaxRetries): the model checker's
\* integers are 32 bits wide, and no attempt count comes near either value.
UintWrap == 2147483647

Nil == "nil"
Addr == {"1.1.1.1", "2.2.2.2"}
APIKey == "test-key"

\* ------------------------------------------------------- configuration
\* config.Config, the fields the Fetcher reads.
\* ZONOMI_HOSTS settings: no host, one, two, and the same host twice.
HostLists == {<<>>, <<"h1">>, <<"h1", "h2">>, <<"h1", "h1">>}

Config(maxRetries, hosts) ==
    [MaxRetries |-> maxRetries, ZonomiHosts |-> hosts, ZonomiAPIKey |-> APIKey]

\* MAX_RETRIES is any integer (getEnvInt): every setting from 0 up and a
\* negative one with a single host, no retry and one retry with every host
\* list.
Configs ==
    {Config(r, <<"h1">>) : r \in 0 .. MaxRetriesBound}
    \cup {Config(r, hs) : r \in 0 .. 1, hs \in HostLists}
    \cup {Config(-1, <<"h1">>)}

\* ------------------------------------------------------------ log file
\* The file is a sequence of tokens: a JSON object (one serialized entry),
\* a run of bytes that is no JSON value, such a run longer than the buffer
\* of a bufio.Scanner (bufio.MaxScanTokenSize, 64 KiB), or a newline.
NL == [t |-> "nl", ip |-> "", tsKey |-> ""]
Junk == [t |-> "junk", ip |-> "", tsKey |-> ""]
Long == [t |-> "long", ip |-> "", tsKey |-> ""]
Obj(ip, tsKey) == [t |-> "obj", ip |-> ip, tsKey |-> tsKey]

\* IPLogEntry{IP, Timestamp}
IPLogEntry(ip) == [IP |-> ip, Timestamp |-> "now"]

\* json.Marshal(entry): the IP field is tagged `json:"ip"`; the tag of
\* Timestamp is written without quotes, so encoding/json does not see it and
\* the key is the field's name.
Marshal(entry) == Obj(entry.IP, "Timestamp")

\* bufio.Scanner with ScanLines: the lines of the data, split at newlines; a
\* final line without a newline is a line when it is not empty.
RECURSIVE Lines(_)
Lines(data) ==
    IF data = <<>> THEN <<>>
    ELSE LET nls == {i \in 1 .. Len(data) : data[i] = NL}
         IN IF nls = {} THEN <<data>>
            ELSE LET k == CHOOSE i \in nls : \A j \in nls : i <= j
                 IN <<SubSeq(data, 1, k - 1)>> \o Lines(SubSeq(data, k + 1, Len(data)))

\* json.Unmarshal([]byte(line), &lastEntry): succeeds when the line is one
\* JSON object; key matching is case-insensitive, so both spellings of the
\* timestamp key are accepted, and IP is the object's "ip".
UnmarshalOK(line) == Len(line) = 1 /\ line[1].t = "obj"

UnmarshalIP(line) == line[1].ip

\* The loop of readLastIP: the IP of the last line that decodes, "" if none.
RECURSIVE ScanLastIP(_, _)
ScanLastIP(lines, lastIP) ==
    IF lines = <<>> THEN lastIP
    ELSE ScanLastIP(Tail(lines),
                    IF UnmarshalOK(Head(lines)) THEN UnmarshalIP(Head(lines)) ELSE lastIP)

\* scanner.Err() after the loop: Scan stops, with bufio.ErrTooLong, at a line
\* that does not fit the scanner's buffer.
TooLong(line) == \E i \in 1 .. Len(line) : line[i].t = "long"

ScanErr(file) == \E i \in 1 .. Len(Lines(file.data)) : TooLong(Lines(file.data)[i])

\* What can go wrong in the storage when the log is read: nothing, an open
\* that fails for another reason than the file's absence, a read that fails.
Faults == {"none", "open", "read"}

\* Faulty variant: a log that does not exist is an error like any other
\* failure of the open.
ReadLastIP_missingFails(file, fault) ==
    IF fault = "open" \/ ~file.exists
    THEN [ip |-> "", err |-> "failed to open log file"]
    ELSE IF fault = "read" \/ ScanErr(file)
    THEN [ip |-> "", err |-> "failed to read log file"]
    ELSE [ip |-> ScanLastIP(Lines(file.data), ""), err |-> Nil]

\* readLastIP: the address and the error it returns.
ReadLastIP(file, fault) ==
    IF fault = "open" THEN [ip |-> "", err |-> "failed to open log file"]
    ELSE IF ~file.exists THEN [ip |-> "", err |-> Nil]
    ELSE IF fault = "read" \/ ScanErr(file)
    THEN [ip |-> "", err |-> "failed to read log file"]
    ELSE [ip |-> ScanLastIP(Lines(file.data), ""), err |-> Nil]

\* The address readLastIP returns when the storage does not fail.
ReadLastIPValue(file) == ReadLastIP(file, "none").ip

\* Faulty variant: the file is opened with O_TRUNC.
WriteEntry_truncates(data, ip) == <<Marshal(IPLogEntry(ip)), NL>>

\* file.WriteString(string(jsonData) + "\n") on a file opened with O_APPEND.
WriteEntry(data, ip) == data \o <<Marshal(IPLogEntry(ip)), NL>>

InitFiles ==
    { [exists |-> FALSE, data |-> <<>>],
      [exists |-> TRUE, data |-> <<>>],
      [exists |-> TRUE, data |-> <<Obj("1.1.1.1", "Timestamp"), NL>>],
      [exists |-> TRUE, data |-> <<Junk, NL, Obj("2.2.2.2", "timestamp"), NL>>],
      [exists |-> TRUE, data |-> <<Obj("1.1.1.1", "Timestamp"), NL, Junk>>],
      [exists |-> TRUE, data |-> <<Long, NL, Obj("2.2.2.2", "Timestamp"), NL>>] }

\* ---------------------------------------------------------------- state
VARIABLES
    config,         \* f.config
    outputFile,     \* the file at f.config.OutputFile
    ctxDone,        \* the context given to FetchIP is cancelled
    pc,             \* where FetchIP is
    newIP,          \* FetchIP's newIP
    lastIP,         \* FetchIP's lastIP
    hostIdx,        \* updateZonomiDNS: index of the host of the loop
    errs,           \* updateZonomiDNS: errs
    numTries,       \* backOffTries.numTries of the running RetryNotify
    retryBackoff,   \* f.retryBackoff: currentInterval, time since Reset
    ret,            \* what FetchIP returned
    cycle,          \* number of FetchIP invocations so far
    fileAtStart,    \* history: the file when the cycle started
    attempts,       \* history: attempts of the RetryNotify running or last run
    failed,         \* history: those of them that failed
    notified,       \* history: calls of its notify function
    lastErr,        \* history: what its last attempt returned
    fetchErr,       \* history: what fetchCurrentIP returned
    readErr,        \* history: what readLastIP returned
    readFault,      \* history: what went wrong in the storage during it
    appendErr,      \* history: what appendIP returned
    updateCalls,    \* history: calls of updateZonomiDNS, this cycle
    reqCount,       \* history: HTTP GETs per host index, this cycle
    reqFailed,      \* history: those of them that failed, per host index
    requests,       \* history: the queries of those GETs
    hostErr,        \* history: what RetryNotify returned per host index
    lastResp,       \* history: what the last GET came back with
    prevCycle,      \* history: how the cycle before this one went
    fresh,          \* history: the retry state of a Fetcher made for this cycle
    sConfig,        \* s.config: RunOnce, Timezone, ScheduleTime
    sScheduler,     \* s.scheduler: none, started, shutdown
    runPc,          \* where Scheduler.Run is
    runRet,         \* what Scheduler.Run returned
    active,         \* FetchIP invocations that have not returned
    fetchCalls,     \* FetchIP invocations made by Run or by the job
    logged,         \* "Failed to fetch IP" records logged by the job
    lastFetch,      \* what the FetchIP invocation that returned last returned
    exitCode,       \* the exit code of main
    env,            \* the environment of the process
    newRet          \* what config.New returned

locals == <<newIP, lastIP, hostIdx, errs, numTries, retryBackoff, ret>>
history == <<fileAtStart, attempts, failed, notified, lastErr, fetchErr, readErr, readFault,
             appendErr, updateCalls, reqCount, reqFailed, requests, hostErr, lastResp>>
run == <<sConfig, sScheduler, runPc, runRet, active, fetchCalls, logged, lastFetch, exitCode>>
loading == <<env, newRet>>
vars == <<config, outputFile, ctxDone, pc, cycle, locals, history, prevCycle, fresh, run, loading>>

Pending == "pending"
Running == [err |-> "running", hosts |-> <<>>]
Return(err, hosts) == [err |-> err, hosts |-> hosts]

\* ----------------------------------------------------- retry (backoff)
\* ExponentialBackOff.Reset(): the interval starts over and so does the clock.
Reset == [currentInterval |-> InitialInterval, elapsed |-> 0]

\* uint64(f.config.MaxRetries)
Uint64(n) == IF n >= 0 THEN n ELSE n + UintWrap

\* incrementCurrentInterval: times 1.5, capped at MaxInterval.
IncrementCurrentInterval(cur) ==
    IF 3 * cur >= 2 * MaxInterval THEN MaxInterval ELSE (3 * cur + 1) \div 2

\* Faulty variant: the retry limit is compared with < instead of <=, which
\* allows one retry more.
NextBackOff_offByOne(maxTries, tries, b, dur) ==
    LET now == b.elapsed + dur
        next == b.currentInterval
        grown == [currentInterval |-> IncrementCurrentInterval(b.currentInterval),
                  elapsed |-> now]
    IN IF maxTries = 0 \/ maxTries < tries
       THEN [stop |-> TRUE, numTries |-> tries,
             b |-> [b EXCEPT !.elapsed = now]]
       ELSE IF now + next > MaxElapsedTime
            THEN [stop |-> TRUE, numTries |-> tries + 1, b |-> grown]
            ELSE [stop |-> FALSE, numTries |-> tries + 1,
                  b |-> [grown EXCEPT !.elapsed = now + next]]

\* backOffTries.NextBackOff over ExponentialBackOff.NextBackOff, called after
\* an attempt that took `dur` and failed: Stop, or the wait before the next
\* attempt.  Yields the new retry state as well.
NextBackOff(maxTries, tries, b, dur) ==
    LET now == b.elapsed + dur
        next == b.currentInterval
        grown == [currentInterval |-> IncrementCurrentInterval(b.currentInterval),
                  elapsed |-> now]
    IN IF maxTries = 0 \/ maxTries <= tries
       THEN [stop |-> TRUE, numTries |-> tries,
             b |-> [b EXCEPT !.elapsed = now]]
       ELSE IF now + next > MaxElapsedTime
            THEN [stop |-> TRUE, numTries |-> tries + 1, b |-> grown]
            ELSE [stop |-> FALSE, numTries |-> tries + 1,
                  b |-> [grown EXCEPT !.elapsed = now + next]]

Durations == {0, ClientTimeout}

\* Faulty variant: the loop ends only when the backoff says Stop.
RetryDone_untilStop(err, stop) == stop

\* Faulty variant: the loop ends only when the operation returns nil.
RetryDone_ignoresStop(err, stop) == err = Nil

\* The loop of RetryNotify ends when the operation returns nil, and when it
\* fails and NextBackOff is Stop.
RetryDone(err, stop) == err = Nil \/ stop

\* Faulty variant: giving up is reported by an error of its own.
RetryResult_generic(err) == IF err = Nil THEN Nil ELSE "retries exhausted"

\* What RetryNotify returns when its loop ends: what the operation returned.
RetryResult(err) == err

\* Faulty variant: the failure the loop gives up on is notified as well.
Notified_always(err, stop) == err # Nil

\* notify(err, next) is called when the operation failed and the loop goes
\* on, after NextBackOff and before the wait.
Notified(err, stop) == err # Nil /\ ~stop

\* Faulty variant: RetryNotify goes on from the state the backoff was left in.
StartRetry_noReset(b) == b

\* RetryNotify begins with b.Reset(): whatever the Fetcher's one backoff
\* object holds from the retried operation before, it starts over.
StartRetry(b) == Reset

\* The retry state of a Fetcher as New makes it: no RetryNotify running, the
\* backoff object as backoff.NewExponentialBackOff leaves it.
FreshRetry == [numTries |-> 0, b |-> Reset]

\* The retry state after one attempt of RetryNotify that returned err after
\* dur, from the state st; first: the attempt is the first of its RetryNotify.
Retried(maxTries, first, st, err, dur) ==
    LET b == IF first THEN StartRetry(st.b) ELSE st.b
        nb == NextBackOff(maxTries, st.numTries, b, dur)
    IN IF RetryDone(err, nb.stop)
       THEN [numTries |-> 0, b |-> IF err = Nil THEN b ELSE nb.b]
       ELSE [numTries |-> nb.numTries, b |-> nb.b]

\* ------------------------------------------------------ HTTP responses
\* What f.client.Get can come back with.  sent = FALSE: Get returned an error.
Response(sent, status, readable, body) ==
    [sent |-> sent, status |-> status, readable |-> readable, body |-> body]

\* Bodies of the address source: a document with the address, a document
\* without one ({}), or bytes that are no JSON document.
Malformed == "<html>"
IPifyResponses ==
    {Response(FALSE, 0, FALSE, Malformed)}
    \cup {Response(TRUE, 500, TRUE, Malformed), Response(TRUE, StatusOK, FALSE, Malformed)}
    \cup {Response(TRUE, StatusOK, TRUE, b) : b \in Addr \cup {"", Malformed}}

\* No GET has been made yet.
NoResponse == Response(FALSE, 0, FALSE, "")

ZonomiResponses ==
    {Response(FALSE, 0, FALSE, Malformed)}
    \cup {Response(TRUE, s, TRUE, Malformed) : s \in {StatusOK, 204, 500}}

\* The operation of updateZonomiDNS handles every status other than 200 in
\* one way: 500 stands for them.
ZonomiOKOrError == {r \in ZonomiResponses : r.status \in {0, StatusOK, 500}}

\* The operation of fetchCurrentIP: one GET of f.config.APIURL.
FetchOperation(resp) ==
    IF ~resp.sent THEN [err |-> "HTTP request failed", ip |-> ""]
    ELSE IF resp.status # StatusOK THEN [err |-> "unexpected status", ip |-> ""]
    ELSE IF ~resp.readable THEN [err |-> "failed to read response", ip |-> ""]
    ELSE IF resp.body = Malformed THEN [err |-> "invalid character", ip |-> ""]
    ELSE [err |-> Nil, ip |-> resp.body]

\* Faulty variant: every status from 200 to 299 is a success.
ZonomiOperation_any2xx(resp) ==
    IF ~resp.sent THEN "Zonomi API request failed"
    ELSE IF resp.status \notin 200 .. 299 THEN "unexpected status"
    ELSE Nil

\* The operation of updateZonomiDNS: one GET of the host's URL.
ZonomiOperation(resp) ==
    IF ~resp.sent THEN "Zonomi API request failed"
    ELSE IF resp.status # StatusOK THEN "unexpected status"
    ELSE Nil

\* Faulty variant: the request carries the address read from the log.
Query_stale(host, ip, key) ==
    [name |-> host, value |-> lastIP, type |-> "A", api_key |-> key]

\* url.Values of one host's request.
Query(host, ip, key) == [name |-> host, value |-> ip, type |-> "A", api_key |-> key]

\* ------------------------------------------------------------- FetchIP
\* Faulty variant: the fetch error is logged and the cycle goes on.
AfterFetch_ignoresError(err) == "readLastIP"

\* Faulty variant: the observation is appended right after the fetch.
AfterFetch_appendsFirst(err) == IF err # Nil THEN "done" ELSE "appendIP"

\* if err != nil { return err } after fetchCurrentIP
AfterFetch(err) == IF err # Nil THEN "done" ELSE "readLastIP"

\* Faulty variant: the append error is logged and the cycle goes on.
AfterAppend_ignoresError(err) == "decide"

\* if err := f.appendIP(newIP); err != nil { return err }
AfterAppend(err) == IF err # Nil THEN "done" ELSE "decide"

\* Faulty variants of the decision: update in every cycle; a first run is
\* not a change; the test for a first run is left out.
Changed_always(last, new) == TRUE

Changed_strict(last, new) == last # "" /\ last # new

Changed_ignoresEmpty(last, new) == last # new

\* Faulty variant: the decision also looks at the failure of the update of
\* the cycle before.
Changed_retriesFailed(last, new) == last = "" \/ last # new \/ prevCycle.updateFailed

\* if lastIP == "" || lastIP != newIP
Changed(last, new) == last = "" \/ last # new

\* Faulty variant: the loop is left at the first host that fails.
NextHost_breaks(i, err, n) == IF err = Nil THEN i + 1 ELSE n + 1

\* for _, host := range f.config.ZonomiHosts: the loop goes on to the next
\* host whatever RetryNotify returned for this one.
NextHost(i, err, n) == i + 1

\* Faulty variant: the slice is overwritten, not extended.
AppendErr_keepsLast(es, host, err) == <<[host |-> host, cause |-> err]>>

\* errs = append(errs, fmt.Errorf("failed for host %s: %w", host, err))
AppendErr(es, host, err) == Append(es, [host |-> host, cause |-> err])

\* Faulty variant: an update of no host is an error.
UpdateResult_rejectsEmpty(es) ==
    IF Len(es) > 0 THEN Return("errors updating hosts", es)
    ELSE IF Len(config.ZonomiHosts) = 0 THEN Return("no hosts configured", <<>>)
    ELSE Return(Nil, <<>>)

\* if len(errs) > 0 { return fmt.Errorf("errors updating hosts: %v", errs) }
UpdateResult(es) ==
    IF Len(es) > 0 THEN Return("errors updating hosts", es) ELSE Return(Nil, <<>>)

NoHosts(cfg) == [i \in 1 .. Len(cfg.ZonomiHosts) |-> 0]
NoErrs(cfg) == [i \in 1 .. Len(cfg.ZonomiHosts) |-> Pending]

\* How a cycle went: the address it fetched, whether it appended it, and
\* whether updateZonomiDNS returned the aggregate error.
NoCycle == [ip |-> "", appended |-> FALSE, updateFailed |-> FALSE]

\* ---------------------------------------------------------- config.New
\* A string as the sequence of its characters.
Chars == {"a", "b", ",", " "}
RECURSIVE Strings(_)
Strings(n) ==
    IF n = 0 THEN {<<>>}
    ELSE Strings(n - 1) \cup {Append(str, c) : str \in {x \in Strings(n - 1) : Len(x) = n - 1}, c \in Chars}

\* A variable of the environment: os.LookupEnv's exists and value.
Var(val) == [set |-> TRUE, val |-> val]
Unset(zero) == [set |-> FALSE, val |-> zero]

\* ZONOMI_API_KEY: empty, a plain key (no base64), base64 of too few bytes,
\* a key sealed with Key32, a key sealed with another key.
APIKeyValues == {"", "test-key", "c2hvcnQ=", "sealed", "sealed-other"}
Key32 == "aaaaaaaaaaaaaaaaaaaaaaaaaaaaaaaa"
EncryptionKeys == {"", "short-key", Key32}
BoolValues == {"true", "false", "1"}

Envs ==
    [ ZONOMI_HOSTS : {Unset(<<>>)} \cup {Var(str) : str \in Strings(MaxHostsLen)},
      ZONOMI_API_KEY : {Unset("")} \cup {Var(k) : k \in APIKeyValues},
      ZONOMI_API_ENCRYPTED : {Unset("")} \cup {Var(v) : v \in BoolValues},
      ZONOMI_ENCRYPTION_KEY : {Unset("")} \cup {Var(k) : k \in EncryptionKeys} ]

getEnv(v, defaultValue) == IF v.set THEN v.val ELSE defaultValue

getEnvBool(v, defaultValue) == IF v.set THEN v.val = "true" ELSE defaultValue

\* strings.Split(str, sep) for a separator of one character.
RECURSIVE Split(_, _)
Split(str, sep) ==
    IF \A i \in 1 .. Len(str) : str[i] # sep THEN <<str>>
    ELSE LET i == CHOOSE j \in 1 .. Len(str) :
                     str[j] = sep /\ \A k \in 1 .. j - 1 : str[k] # sep
         IN <<SubSeq(str, 1, i - 1)>> \o Split(SubSeq(str, i + 1, Len(str)), sep)

\* Faulty variant: only the leading whitespace is cut.
RECURSIVE TrimSpace_leading(_)
TrimSpace_leading(str) ==
    IF str = <<>> THEN str
    ELSE IF Head(str) = " " THEN TrimSpace_leading(Tail(str))
    ELSE str

\* strings.TrimSpace
RECURSIVE TrimSpace(_)
TrimSpace(str) ==
    IF str = <<>> THEN str
    ELSE IF Head(str) = " " THEN TrimSpace(Tail(str))
    ELSE IF str[Len(str)] = " " THEN TrimSpace(SubSeq(str, 1, Len(str) - 1))
    ELSE str

\* loadHosts
loadHosts(e) ==
    LET hostsStr == getEnv(e.ZONOMI_HOSTS, <<>>)
        hosts == Split(hostsStr, ",")
    IN IF hostsStr = <<>> THEN [hosts |-> <<>>, err |-> "ZONOMI_HOSTS is required"]
       ELSE IF Len(hosts) = 0
       THEN [hosts |-> <<>>, err |-> "ZONOMI_HOSTS is empty after parsing"]
       ELSE [hosts |-> [i \in 1 .. Len(hosts) |-> TrimSpace(hosts[i])], err |-> Nil]

\* decryptAPIKey
decryptAPIKey(encryptedKey, encryptKey) ==
    IF encryptedKey \notin {"c2hvcnQ=", "sealed", "sealed-other"}
    THEN [key |-> "", err |-> "failed to decode ZONOMI_API_KEY"]
    ELSE IF encryptKey # Key32
    THEN [key |-> "", err |-> "ZONOMI_ENCRYPTION_KEY must be 32 bytes"]
    ELSE IF encryptedKey = "c2hvcnQ=" THEN [key |-> "", err |-> "invalid ciphertext: too short"]
    ELSE IF encryptedKey # "sealed" THEN [key |-> "", err |-> "failed to decrypt ZONOMI_API_KEY"]
    ELSE [key |-> "test-key", err |-> Nil]

\* loadAPIKey
loadAPIKey(e, encrypted, encryptKey) ==
    LET apiKey == getEnv(e.ZONOMI_API_KEY, "")
    IN IF apiKey = "" THEN [key |-> "", err |-> "ZONOMI_API_KEY is required"]
       ELSE IF ~encrypted THEN [key |-> apiKey, err |-> Nil]
       ELSE IF encryptKey = ""
       THEN [key |-> "", err |-> "ZONOMI_ENCRYPTION_KEY is required when ZONOMI_API_ENCRYPTED is true"]
       ELSE decryptAPIKey(apiKey, encryptKey)

\* What config.New returns: the Config, or no Config and an error.  The
\* pointer is a sequence of at most one Config.
Loaded(cfg) == [cfg |-> <<cfg>>, err |-> Nil]
Failed(err) == [cfg |-> <<>>, err |-> err]
NotCalled == [cfg |-> <<>>, err |-> Pending]

\* Faulty variant: the API key is loaded before the hosts.
New_keyFirst(e, mkdirFails) ==
    LET hosts == loadHosts(e)
        encrypted == getEnvBool(e.ZONOMI_API_ENCRYPTED, FALSE)
        encryptKey == getEnv(e.ZONOMI_ENCRYPTION_KEY, "")
        apiKey == loadAPIKey(e, encrypted, encryptKey)
    IN IF apiKey.err # Nil THEN Failed(apiKey.err)
       ELSE IF hosts.err # Nil THEN Failed(hosts.err)
       ELSE IF mkdirFails THEN Failed("failed to create output directory")
       ELSE Loaded([ZonomiHosts |-> hosts.hosts, ZonomiAPIKey |-> apiKey.key,
                    ZonomiAPIEncrypted |-> encrypted, ZonomiEncryptionKey |-> encryptKey])

\* config.New
New(e, mkdirFails) ==
    LET hosts == loadHosts(e)
        encrypted == getEnvBool(e.ZONOMI_API_ENCRYPTED, FALSE)
        encryptKey == getEnv(e.ZONOMI_ENCRYPTION_KEY, "")
        apiKey == loadAPIKey(e, encrypted, encryptKey)
    IN IF hosts.err # Nil THEN Failed(hosts.err)
       ELSE IF apiKey.err # Nil THEN Failed(apiKey.err)
       ELSE IF mkdirFails THEN Failed("failed to create output directory")
       ELSE Loaded([ZonomiHosts |-> hosts.hosts, ZonomiAPIKey |-> apiKey.key,
                    ZonomiAPIEncrypted |-> encrypted, ZonomiEncryptionKey |-> encryptKey])

\* The environment of the tests: one host, a plain key.
TestEnv ==
    [ ZONOMI_HOSTS |-> Var(<<"a">>), ZONOMI_API_KEY |-> Var("test-key"),
      ZONOMI_API_ENCRYPTED |-> Unset(""), ZONOMI_ENCRYPTION_KEY |-> Unset("") ]

\* The Config is handed over as it is (config, sConfig): config.New is not
\* called.
ConfigGiven ==
    /\ env = TestEnv
    /\ newRet = NotCalled

\* ----------------------------------------------------------- Scheduler
\* A part of strings.Split(ScheduleTime, ":") as strconv.Atoi sees it: an
\* integer, or text that is none.
Num(n) == [int |-> TRUE, val |-> n]
NaN == [int |-> FALSE, val |-> 0]

\* "23:59", "00:00", "invalid", "", "1:2:3", "aa:10", "10:bb", "aa:bb",
\* "25:00", "23:60", "-1:30", "12:-5", "25:bb"
ScheduleTimes ==
    { <<Num(23), Num(59)>>, <<Num(0), Num(0)>>, <<NaN>>, <<Num(1), Num(2), Num(3)>>,
      <<NaN, Num(10)>>, <<Num(10), NaN>>, <<NaN, NaN>>, <<Num(25), Num(0)>>,
      <<Num(23), Num(60)>>, <<Num(-1), Num(30)>>, <<Num(12), Num(-5)>>, <<Num(25), NaN>> }

\* Names time.LoadLocation knows, and one it does not.
Locations == {"UTC", "Europe/London"}
Timezones == Locations \cup {"Invalid/Timezone"}

SchedulerConfig(runOnce, tz, at) == [RunOnce |-> runOnce, Timezone |-> tz, ScheduleTime |-> at]

SchedulerConfigs ==
    {SchedulerConfig(o, tz, at) : o \in BOOLEAN, tz \in Timezones, at \in ScheduleTimes}

\* gocron.NewScheduler or NewJob returns an error.
RunFaults == {"none", "scheduler", "job"}

\* Faulty variant: the schedule time is parsed before the timezone is loaded.
Validate_scheduleFirst(cfg, fault) ==
    LET parts == cfg.ScheduleTime
    IN IF Len(parts) # 2 THEN "invalid SCHEDULE_TIME format"
       ELSE IF ~parts[1].int THEN "invalid SCHEDULE_TIME hour"
       ELSE IF ~parts[2].int THEN "invalid SCHEDULE_TIME minute"
       ELSE IF parts[1].val < 0 \/ parts[1].val > 23 \/ parts[2].val < 0 \/ parts[2].val > 59
       THEN "invalid SCHEDULE_TIME: hour must be 0-23, minute must be 0-59"
       ELSE IF cfg.Timezone \notin Locations THEN "failed to load timezone"
       ELSE IF fault = "scheduler" THEN "failed to create scheduler"
       ELSE IF fault = "job" THEN "failed to schedule job"
       ELSE Nil

\* Scheduler.Run in scheduled mode up to scheduler.Start(): the error it
\* returns, or Nil when the job is scheduled.
Validate(cfg, fault) ==
    LET parts == cfg.ScheduleTime
    IN IF cfg.Timezone \notin Locations THEN "failed to load timezone"
       ELSE IF Len(parts) # 2 THEN "invalid SCHEDULE_TIME format"
       ELSE IF ~parts[1].int THEN "invalid SCHEDULE_TIME hour"
       ELSE IF ~parts[2].int THEN "invalid SCHEDULE_TIME minute"
       ELSE IF parts[1].val < 0 \/ parts[1].val > 23 \/ parts[2].val < 0 \/ parts[2].val > 59
       THEN "invalid SCHEDULE_TIME: hour must be 0-23, minute must be 0-59"
       ELSE IF fault = "scheduler" THEN "failed to create scheduler"
       ELSE IF fault = "job" THEN "failed to schedule job"
       ELSE Nil

\* Faulty variant: run-once mode logs the error of the cycle and returns nil.
RunOnceResult_logged(err) == Nil

\* return s.fetcher.FetchIP(ctx)
RunOnceResult(err) == err

\* Faulty variant: a failing cycle ends Run.
AfterTask_stops(err) == IF err # Nil THEN "returned" ELSE "waiting"

\* The task of the job logs the error of FetchIP and returns: Run stays
\* blocked on ctx.Done().
AfterTask(err) == "waiting"

\* main: os.Exit(1) when Run returns an error.
ExitCode(err) == IF err # Nil THEN 1 ELSE 0

\* What a FetchIP invocation returns, as Run sees it.
FetchResults == {Nil, "cycle failed"}

\* scheduler.New: no scheduler yet, Run not called.
InitScheduler ==
    /\ sScheduler = "none"
    /\ runPc = "init"
    /\ runRet = Pending
    /\ active = 0
    /\ fetchCalls = 0
    /\ logged = 0
    /\ lastFetch = Pending
    /\ exitCode = -1

\* fetcher.New, and the log as it may be found.
InitFetcher ==
    /\ config \in Configs
    /\ outputFile \in InitFiles
    /\ ctxDone = FALSE
    /\ pc = "idle"
    /\ newIP = ""
    /\ lastIP = ""
    /\ hostIdx = 1
    /\ errs = <<>>
    /\ numTries = 0
    /\ retryBackoff = Reset
    /\ ret = Running
    /\ cycle = 0
    /\ fileAtStart = outputFile
    /\ attempts = 0
    /\ failed = 0
    /\ notified = 0
    /\ lastErr = Pending
    /\ fetchErr = Pending
    /\ readErr = Pending
    /\ readFault = Pending
    /\ appendErr = Pending
    /\ updateCalls = 0
    /\ reqCount = NoHosts(config)
    /\ reqFailed = NoHosts(config)
    /\ requests = {}
    /\ hostErr = NoErrs(config)
    /\ lastResp = NoResponse
    /\ prevCycle = NoCycle
    /\ fresh = FreshRetry

\* The Fetcher under a scheduler whose part is left out: each cycle is one
\* invocation of FetchIP.
Init ==
    /\ ConfigGiven
    /\ sConfig = SchedulerConfig(FALSE, "UTC", <<Num(23), Num(59)>>)
    /\ InitScheduler
    /\ InitFetcher

\* The trigger (Scheduler.Run) invokes FetchIP: a new cycle starts.  Once the
\* context is cancelled Run shuts the trigger down.
StartCycle ==
    /\ pc \in {"idle", "done"}
    /\ ~ctxDone
    /\ cycle < MaxCycles
    /\ cycle' = cycle + 1
    /\ pc' = "fetchCurrentIP"
    /\ newIP' = ""
    /\ lastIP' = ""
    /\ hostIdx' = 1
    /\ errs' = <<>>
    /\ numTries' = 0
    /\ ret' = Running
    /\ fileAtStart' = outputFile
    /\ attempts' = 0
    /\ failed' = 0
    /\ notified' = 0
    /\ lastErr' = Pending
    /\ fetchErr' = Pending
    /\ readErr' = Pending
    /\ readFault' = Pending
    /\ appendErr' = Pending
    /\ updateCalls' = 0
    /\ reqCount' = NoHosts(config)
    /\ reqFailed' = NoHosts(config)
    /\ requests' = {}
    /\ hostErr' = NoErrs(config)
    /\ lastResp' = NoResponse
    /\ fresh' = FreshRetry
    /\ UNCHANGED <<config, ctxDone, outputFile, retryBackoff, run, loading>>

FetchIP == StartCycle /\ UNCHANGED prevCycle

\* The same invocation, with the cycle that ended kept on record.
Outcome ==
    [ip |-> newIP, appended |-> appendErr = Nil,
     updateFailed |-> ret.err = "errors updating hosts"]

FetchIP_next == StartCycle /\ prevCycle' = Outcome

\* One iteration of RetryNotify in fetchCurrentIP, and FetchIP's handling of
\* the result when the loop ends.  The wrapper made by WithMaxRetries (and its
\* numTries) lives for one RetryNotify; f.retryBackoff is left as it is.
fetchCurrentIP(resp, dur) ==
    /\ pc = "fetchCurrentIP"
    /\ LET r == FetchOperation(resp)
           b == IF attempts = 0 THEN StartRetry(retryBackoff) ELSE retryBackoff
           nb == NextBackOff(Uint64(config.MaxRetries), numTries, b, dur)
           res == RetryResult(r.err)
       IN /\ attempts' = attempts + 1
          /\ failed' = IF r.err = Nil THEN failed ELSE failed + 1
          /\ notified' = IF Notified(r.err, nb.stop) THEN notified + 1 ELSE notified
          /\ lastErr' = r.err
          /\ lastResp' = resp
          /\ fresh' = Retried(Uint64(config.MaxRetries), attempts = 0, fresh, r.err, dur)
          /\ IF RetryDone(r.err, nb.stop)
             THEN /\ newIP' = IF res = Nil THEN r.ip ELSE ""
                  /\ fetchErr' = res
                  /\ pc' = AfterFetch(res)
                  /\ ret' = IF AfterFetch(res) = "done" THEN Return(res, <<>>) ELSE ret
                  /\ numTries' = 0
                  /\ retryBackoff' = IF r.err = Nil THEN b ELSE nb.b
             ELSE /\ numTries' = nb.numTries
                  /\ retryBackoff' = nb.b
                  /\ UNCHANGED <<newIP, fetchErr, pc, ret>>
    /\ UNCHANGED <<config, loading, prevCycle, run, ctxDone, outputFile, cycle, lastIP, hostIdx, errs>>
    /\ UNCHANGED <<fileAtStart, readErr, readFault, appendErr, updateCalls, reqCount, reqFailed,
                   requests, hostErr>>

\* Faulty variant: a failure of readLastIP ends the cycle.
AfterRead_aborts(err) == IF err # Nil THEN "done" ELSE "appendIP"

\* if err != nil { f.logger.Warn(...) } after readLastIP: no return.
AfterRead(err) == "appendIP"

\* A read fails only on a file that could be opened.
ReadFaults(file) == IF file.exists THEN Faults ELSE Faults \ {"read"}

\* Faulty variant: on a change the update is made right after the read,
\* before the observation is appended.
readLastIP_updatesFirst(fault) ==
    /\ pc = "readLastIP"
    /\ fault \in ReadFaults(outputFile)
    /\ readFault' = fault
    /\ readErr' = ReadLastIP(outputFile, fault).err
    /\ lastIP' = ReadLastIP(outputFile, fault).ip
    /\ pc' = IF lastIP' = "" \/ lastIP' # newIP THEN "updateZonomiDNS" ELSE "appendIP"
    /\ updateCalls' = IF lastIP' = "" \/ lastIP' # newIP THEN updateCalls + 1 ELSE updateCalls
    /\ UNCHANGED <<config, loading, prevCycle, fresh, run, ctxDone, outputFile, cycle, newIP, hostIdx, errs, numTries,
                   retryBackoff, ret>>
    /\ UNCHANGED <<fileAtStart, attempts, failed, notified, lastErr, fetchErr, appendErr,
                   reqCount, reqFailed, requests, hostErr, lastResp>>

\* readLastIP, and FetchIP's handling of its error (a warning, no return).
readLastIP(fault) ==
    /\ pc = "readLastIP"
    /\ fault \in ReadFaults(outputFile)
    /\ LET r == ReadLastIP(outputFile, fault)
       IN /\ readFault' = fault
          /\ readErr' = r.err
          /\ lastIP' = r.ip
          /\ pc' = AfterRead(r.err)
          /\ ret' = IF AfterRead(r.err) = "done" THEN Return(r.err, <<>>) ELSE ret
    /\ UNCHANGED <<config, loading, prevCycle, fresh, run, ctxDone, outputFile, cycle, newIP, hostIdx, errs, numTries,
                   retryBackoff>>
    /\ UNCHANGED <<fileAtStart, attempts, failed, notified, lastErr, fetchErr, appendErr,
                   updateCalls, reqCount, reqFailed, requests, hostErr, lastResp>>

\* The file after appendIP: the entry and a newline on success; nothing when
\* the open fails; on a failed write the file exists and may hold a part of
\* the entry.
AppendedFile(file, ip, outcome, partial) ==
    IF outcome = Nil THEN [exists |-> TRUE, data |-> WriteEntry(file.data, ip)]
    ELSE IF outcome = "failed to open file" THEN file
    ELSE [exists |-> TRUE, data |-> IF partial THEN Append(file.data, Junk) ELSE file.data]

AppendErrors == {Nil, "failed to open file", "failed to write to file"}

\* appendIP and the rest of FetchIP up to the call of updateZonomiDNS: the
\* return on an append error and the decision on the change.  json.Marshal
\* of two strings does not fail, so appendIP fails in the open or the write.
appendIP(outcome, partial) ==
    /\ pc = "appendIP"
    /\ outputFile' = AppendedFile(outputFile, newIP, outcome, partial)
    /\ appendErr' = outcome
    /\ IF AfterAppend(outcome) = "done"
       THEN /\ pc' = "done"
            /\ ret' = Return(outcome, <<>>)
            /\ UNCHANGED updateCalls
       ELSE IF Changed(lastIP, newIP)
       THEN /\ pc' = "updateZonomiDNS"
            /\ updateCalls' = updateCalls + 1
            /\ UNCHANGED ret
       ELSE /\ pc' = "done"
            /\ ret' = Return(Nil, <<>>)
            /\ UNCHANGED updateCalls
    /\ UNCHANGED <<config, loading, prevCycle, fresh, run, ctxDone, cycle, newIP, lastIP, hostIdx, errs, numTries, retryBackoff>>
    /\ UNCHANGED <<fileAtStart, attempts, failed, notified, lastErr, fetchErr, readErr, readFault, reqCount, reqFailed,
                   requests, hostErr, lastResp>>

\* One iteration of RetryNotify for the host of the loop of updateZonomiDNS.
updateZonomiDNS(resp, dur) ==
    /\ pc = "updateZonomiDNS"
    /\ hostIdx <= Len(config.ZonomiHosts)
    /\ LET host == config.ZonomiHosts[hostIdx]
           err == ZonomiOperation(resp)
           b == IF reqCount[hostIdx] = 0 THEN StartRetry(retryBackoff) ELSE retryBackoff
           nb == NextBackOff(Uint64(config.MaxRetries), numTries, b, dur)
           first == reqCount[hostIdx] = 0
           res == RetryResult(err)
       IN /\ attempts' = IF first THEN 1 ELSE attempts + 1
          /\ failed' = (IF first THEN 0 ELSE failed) + (IF err = Nil THEN 0 ELSE 1)
          /\ notified' = (IF first THEN 0 ELSE notified)
                           + (IF Notified(err, nb.stop) THEN 1 ELSE 0)
          /\ lastErr' = err
          /\ lastResp' = resp
          /\ fresh' = Retried(Uint64(config.MaxRetries), first, fresh, err, dur)
          /\ reqCount' = [reqCount EXCEPT ![hostIdx] = @ + 1]
          /\ reqFailed' = [reqFailed EXCEPT ![hostIdx] = IF err = Nil THEN @ ELSE @ + 1]
          /\ requests' = requests \cup {Query(host, newIP, config.ZonomiAPIKey)}
          /\ IF RetryDone(err, nb.stop)
             THEN /\ hostErr' = [hostErr EXCEPT ![hostIdx] = res]
                  /\ errs' = IF res = Nil THEN errs ELSE AppendErr(errs, host, res)
                  /\ hostIdx' = NextHost(hostIdx, res, Len(config.ZonomiHosts))
                  /\ numTries' = 0
                  /\ retryBackoff' = IF err = Nil THEN b ELSE nb.b
             ELSE /\ numTries' = nb.numTries
                  /\ retryBackoff' = nb.b
                  /\ UNCHANGED <<hostErr, errs, hostIdx>>
    /\ UNCHANGED <<config, loading, prevCycle, run, ctxDone, outputFile, pc, cycle, newIP, lastIP, ret>>
    /\ UNCHANGED <<fileAtStart, fetchErr, readErr, readFault, appendErr, updateCalls>>

\* The end of updateZonomiDNS, and FetchIP's return of its result.
updateZonomiDNS_return ==
    /\ pc = "updateZonomiDNS"
    /\ hostIdx > Len(config.ZonomiHosts)
    /\ ret' = UpdateResult(errs)
    /\ pc' = "done"
    /\ UNCHANGED <<config, loading, prevCycle, fresh, run, ctxDone, outputFile, cycle, newIP, lastIP, hostIdx, errs, numTries, retryBackoff>>
    /\ UNCHANGED history

\* The context of Run, which Run hands to FetchIP, is cancelled (SIGINT or
\* SIGTERM, main.go) while a RetryNotify waits between two attempts.  FetchIP
\* drops the context it is given and RetryNotify runs on the background
\* context, so the step changes nothing the cycle reads.
Cancel ==
    /\ pc \in {"fetchCurrentIP", "updateZonomiDNS"}
    /\ numTries > 0
    /\ ~ctxDone
    /\ ctxDone' = TRUE
    /\ UNCHANGED <<config, loading, prevCycle, fresh, run, outputFile, pc, cycle, locals, history>>

Next ==
    \/ FetchIP
    \/ \E resp \in IPifyResponses, dur \in Durations :
          fetchCurrentIP(resp, dur)
    \/ \E fault \in Faults : readLastIP(fault)
    \/ \E outcome \in AppendErrors, partial \in BOOLEAN : appendIP(outcome, partial)
    \/ \E resp \in ZonomiOKOrError, dur \in Durations :
          updateZonomiDNS(resp, dur)
    \/ updateZonomiDNS_return

Spec == Init /\ [][Next]_vars

\* The cycles with a context that can be cancelled during a wait.
NextCancel == Next \/ Cancel

SpecCancel == Init /\ [][NextCancel]_vars

\* The steps of a cycle under way: everything but the start of a cycle.
CycleStep ==
    \/ \E resp \in IPifyResponses, dur \in Durations :
          fetchCurrentIP(resp, dur)
    \/ \E fault \in Faults : readLastIP(fault)
    \/ \E outcome \in AppendErrors, partial \in BOOLEAN : appendIP(outcome, partial)
    \/ \E resp \in ZonomiOKOrError, dur \in Durations :
          updateZonomiDNS(resp, dur)
    \/ updateZonomiDNS_return

\* The cycles of a Fetcher whose calls return: FetchIP runs in one goroutine
\* without a lock or a channel to wait on, every client.Get returns within
\* the client's Timeout, and every wait of RetryNotify is a timer of at most
\* MaxInterval, so a cycle that can take a step takes it.  With a retry limit
\* that is negative and one host, and with one retry and two hosts; with no
\* log yet.
InitLive ==
    /\ Init
    /\ config \in {Config(-1, <<"h1">>), Config(1, <<"h1", "h2">>)}
    /\ outputFile = [exists |-> FALSE, data |-> <<>>]

SpecLive == InitLive /\ [][Next]_vars /\ WF_vars(CycleStep)

\* The cycles with the outcome of the previous cycle on record and with
\* every status of ZonomiResponses, for one host with one retry and for two
\* hosts without retries.
InitHistory == Init /\ config \in {Config(1, <<"h1">>), Config(0, <<"h1", "h2">>)}

NextHistory ==
    \/ FetchIP_next
    \/ \E resp \in IPifyResponses, dur \in Durations :
          fetchCurrentIP(resp, dur)
    \/ \E fault \in Faults : readLastIP(fault)
    \/ \E outcome \in AppendErrors, partial \in BOOLEAN : appendIP(outcome, partial)
    \/ \E resp \in ZonomiResponses, dur \in Durations :
          updateZonomiDNS(resp, dur)
    \/ updateZonomiDNS_return

SpecHistory == InitHistory /\ [][NextHistory]_vars

\* ------------------------------------------------------- Scheduler.Run
fetcher == <<config, outputFile, pc, cycle, locals, history, prevCycle, fresh>>

\* Run is called: in run-once mode it calls FetchIP; in scheduled mode it
\* validates, creates the scheduler and the daily job, and starts it.
Run(fault) ==
    /\ runPc = "init"
    /\ IF sConfig.RunOnce
       THEN /\ runPc' = "FetchIP"
            /\ fetchCalls' = fetchCalls + 1
            /\ active' = active + 1
            /\ UNCHANGED <<sScheduler, runRet>>
       ELSE IF Validate(sConfig, fault) # Nil
       THEN /\ runPc' = "returned"
            /\ runRet' = Validate(sConfig, fault)
            /\ UNCHANGED <<sScheduler, fetchCalls, active>>
       ELSE /\ runPc' = "waiting"
            /\ sScheduler' = "started"
            /\ UNCHANGED <<runRet, fetchCalls, active>>
    /\ UNCHANGED <<sConfig, logged, lastFetch, exitCode, ctxDone, fetcher, loading>>

\* Run-once mode: FetchIP returns and Run returns its result.
RunOnce_return(err) ==
    /\ runPc = "FetchIP"
    /\ active' = active - 1
    /\ lastFetch' = err
    /\ runRet' = RunOnceResult(err)
    /\ runPc' = "returned"
    /\ UNCHANGED <<sConfig, sScheduler, fetchCalls, logged, exitCode, ctxDone, fetcher, loading>>

\* The daily job falls due: gocron runs the task in a goroutine of its own,
\* whether or not a run before it has returned (the job is not in singleton
\* mode), and the task calls FetchIP.
DailyJob ==
    /\ sScheduler = "started"
    /\ exitCode = -1
    /\ fetchCalls < MaxCycles
    /\ fetchCalls' = fetchCalls + 1
    /\ active' = active + 1
    /\ UNCHANGED <<sConfig, sScheduler, runPc, runRet, logged, lastFetch, exitCode, ctxDone, fetcher, loading>>

\* FetchIP returns in the task of the job: an error is logged.
Task_return(err) ==
    /\ ~sConfig.RunOnce
    /\ active > 0
    /\ exitCode = -1
    /\ active' = active - 1
    /\ lastFetch' = err
    /\ logged' = IF err # Nil THEN logged + 1 ELSE logged
    /\ IF runPc = "waiting" /\ AfterTask(err) = "returned"
       THEN runPc' = "returned" /\ runRet' = err
       ELSE UNCHANGED <<runPc, runRet>>
    /\ UNCHANGED <<sConfig, sScheduler, fetchCalls, exitCode, ctxDone, fetcher, loading>>

\* SIGINT or SIGTERM: the context of Run is done.
Signal ==
    /\ ~ctxDone
    /\ exitCode = -1
    /\ ctxDone' = TRUE
    /\ UNCHANGED <<run, fetcher, loading>>

\* scheduler.Shutdown() returns nil, or an error when the jobs in flight did
\* not stop in time.
ShutdownErrors == {Nil, "failed to shutdown scheduler"}

\* Faulty variant: Run returns the error of the shutdown.
ShutdownResult_propagates(err) == err

\* The error of the shutdown is logged, and Run returns nil.
ShutdownResult(err) == Nil

\* <-ctx.Done() returns: Run shuts the scheduler down, logs the error of the
\* shutdown if there is one, and returns nil.
Shutdown(err) ==
    /\ runPc = "waiting"
    /\ ctxDone
    /\ sScheduler' = "shutdown"
    /\ logged' = IF err # Nil THEN logged + 1 ELSE logged
    /\ runRet' = ShutdownResult(err)
    /\ runPc' = "returned"
    /\ UNCHANGED <<sConfig, active, fetchCalls, lastFetch, exitCode, ctxDone, fetcher, loading>>

\* main after Run returned: the process ends, and with it every goroutine.
Exit ==
    /\ runPc = "returned"
    /\ exitCode = -1
    /\ exitCode' = ExitCode(runRet)
    /\ active' = 0
    /\ UNCHANGED <<sConfig, sScheduler, runPc, runRet, fetchCalls, logged, lastFetch, ctxDone, fetcher, loading>>

\* Run with a Fetcher behind FetcherInterface: what FetchIP does is left
\* out, it is called and it returns.
InitRun ==
    /\ ConfigGiven
    /\ sConfig \in SchedulerConfigs
    /\ InitScheduler
    /\ config = Config(0, <<"h1">>)
    /\ outputFile = [exists |-> FALSE, data |-> <<>>]
    /\ InitFetcher

NextRun ==
    \/ \E fault \in RunFaults : Run(fault)
    \/ \E err \in FetchResults : RunOnce_return(err)
    \/ DailyJob
    \/ \E err \in FetchResults : Task_return(err)
    \/ Signal
    \/ \E err \in ShutdownErrors : Shutdown(err)
    \/ Exit

SpecRun == InitRun /\ [][NextRun]_vars

\* ----------------------------------------------------- main: config.New
\* main calls config.New and exits with 1 when it returns an error.
main_New(mkdirFails) ==
    /\ newRet = NotCalled
    /\ newRet' = New(env, mkdirFails)
    /\ exitCode' = IF newRet'.err # Nil THEN ExitCode(newRet'.err) ELSE exitCode
    /\ UNCHANGED <<env, sConfig, sScheduler, runPc, runRet, active, fetchCalls, logged, lastFetch,
                   ctxDone, fetcher>>

InitConfig ==
    /\ env \in Envs
    /\ newRet = NotCalled
    /\ sConfig = SchedulerConfig(FALSE, "UTC", <<Num(23), Num(59)>>)
    /\ InitScheduler
    /\ config = Config(0, <<"h1">>)
    /\ outputFile = [exists |-> FALSE, data |-> <<>>]
    /\ InitFetcher

NextConfig == \E mkdirFails \in BOOLEAN : main_New(mkdirFails)

SpecConfig == InitConfig /\ [][NextConfig]_vars

\* ================================================================ claims
HostIdxs == 1 .. Len(config.ZonomiHosts)
FetchFailed == fetchErr \notin {Pending, Nil}
AppendFailed == appendErr \notin {Pending, Nil}
\* The last address recorded in the log when the cycle started.
LastRecorded == ReadLastIPValue(fileAtStart)
\* The cycle added one serialized observation of `ip`, and a newline, to what
\* the log held when the cycle started, and nothing else.
AppendedOne(ip) ==
    LET old == fileAtStart.data
        new == outputFile.data
    IN /\ outputFile.exists
       /\ Len(new) = Len(old) + 2
       /\ SubSeq(new, 1, Len(old)) = old
       /\ new[Len(old) + 1].t = "obj"
       /\ new[Len(old) + 1].ip = ip
       /\ new[Len(old) + 2] = NL
\* A GET of the DNS provider is issued by this step.
RequestIssued == \E i \in DOMAIN reqCount : reqCount'[i] > reqCount[i]
\* The queries an update pass with address `ip` sends, one per host.
QueriesFor(ip) ==
    {[name |-> config.ZonomiHosts[i], value |-> ip, type |-> "A",
      api_key |-> config.ZonomiAPIKey] : i \in HostIdxs}
\* The hosts RetryNotify gave up on, in the order of the list, with the cause.
RECURSIVE FailedFrom(_)
FailedFrom(i) ==
    IF i > Len(config.ZonomiHosts) THEN <<>>
    ELSE (IF hostErr[i] # Nil
          THEN <<[host |-> config.ZonomiHosts[i], cause |-> hostErr[i]]>>
          ELSE <<>>) \o FailedFrom(i + 1)

\* C1: in every cycle, a DNS update request is issued only after the append
\* of the new observation has completed successfully: at every step that
\* issues a request, appendIP has returned nil and the log holds the entry.
C1_AppendPrecedesUpdate ==
    [][RequestIssued => appendErr = Nil /\ AppendedOne(newIP)]_vars

C1_Witness ==
    /\ pc = "updateZonomiDNS"
    /\ requests # {}
    /\ appendErr = Nil

\* C2: if the append fails, the cycle is over: FetchIP has returned the
\* append error and no DNS update request was made, changed address or not.
C2_AppendFailureAborts ==
    AppendFailed =>
        /\ pc = "done"
        /\ ret = Return(appendErr, <<>>)
        /\ updateCalls = 0
        /\ requests = {}
        /\ \A i \in HostIdxs : reqCount[i] = 0

C2_Witness ==
    /\ AppendFailed
    /\ lastIP # newIP
    /\ lastIP # ""
    /\ config.ZonomiHosts # <<>>

\* C3 as stated: whenever the last address recorded in the log is A and the
\* fetch returns A, the cycle makes no DNS request, appends exactly one
\* observation of A and returns no error.
C3_AsStated ==
    (pc = "done" /\ fetchErr = Nil /\ newIP \in Addr /\ LastRecorded = newIP) =>
        /\ requests = {}
        /\ updateCalls = 0
        /\ AppendedOne(newIP)
        /\ ret = Return(Nil, <<>>)

\* C3, amended: when readLastIP returns A (the last record of the log that
\* decodes) and the fetch returns A, the cycle makes no DNS request; when the
\* append succeeds as well, it has appended exactly one observation of A and
\* returns no error.
C3_Idempotence ==
    (pc = "done" /\ fetchErr = Nil /\ newIP \in Addr
        /\ readErr = Nil /\ LastRecorded = newIP) =>
        /\ requests = {}
        /\ updateCalls = 0
        /\ appendErr = Nil => AppendedOne(newIP) /\ ret = Return(Nil, <<>>)

C3_Witness ==
    /\ pc = "done"
    /\ fetchErr = Nil
    /\ newIP \in Addr
    /\ readErr = Nil
    /\ LastRecorded = newIP
    /\ appendErr = Nil
    /\ config.ZonomiHosts # <<>>

\* C4 as stated: whenever the last recorded address is A and the fetch
\* returns B # A, the cycle appends exactly one observation of B and makes
\* exactly one update pass, whose requests all carry B, type A and the key.
C4_AsStated ==
    (pc = "done" /\ fetchErr = Nil /\ LastRecorded \in Addr /\ newIP # LastRecorded) =>
        /\ AppendedOne(newIP)
        /\ updateCalls = 1
        /\ requests = QueriesFor(newIP)

\* C4, amended: the same, for the cycles whose append succeeds.
C4_ChangeDetection ==
    (pc = "done" /\ fetchErr = Nil /\ LastRecorded \in Addr /\ newIP # LastRecorded
        /\ appendErr = Nil) =>
        /\ AppendedOne(newIP)
        /\ updateCalls = 1
        /\ requests = QueriesFor(newIP)

C4_Witness ==
    /\ pc = "done"
    /\ fetchErr = Nil
    /\ readErr = Nil
    /\ LastRecorded \in Addr
    /\ newIP \in Addr
    /\ newIP # LastRecorded
    /\ appendErr = Nil
    /\ Len(config.ZonomiHosts) = 2
    /\ requests = QueriesFor(newIP)

\* C5 as stated: with the log absent or empty, a cycle whose fetch returns X
\* appends exactly one observation of X and requests every host, each host
\* exactly once when no request fails.
C5_AsStated ==
    (pc = "done" /\ fetchErr = Nil /\ (~fileAtStart.exists \/ fileAtStart.data = <<>>)) =>
        /\ AppendedOne(newIP)
        /\ updateCalls = 1
        /\ \A i \in HostIdxs : reqCount[i] >= 1
        /\ (\A i \in HostIdxs : reqFailed[i] = 0) => \A i \in HostIdxs : reqCount[i] = 1

\* C5, amended: the same, for the cycles whose append succeeds.
C5_FirstRun ==
    (pc = "done" /\ fetchErr = Nil /\ (~fileAtStart.exists \/ fileAtStart.data = <<>>)
        /\ appendErr = Nil) =>
        /\ AppendedOne(newIP)
        /\ updateCalls = 1
        /\ \A i \in HostIdxs : reqCount[i] >= 1
        /\ (\A i \in HostIdxs : reqFailed[i] = 0) => \A i \in HostIdxs : reqCount[i] = 1

C5_Witness ==
    /\ pc = "done"
    /\ fetchErr = Nil
    /\ ~fileAtStart.exists
    /\ appendErr = Nil
    /\ Len(config.ZonomiHosts) = 2
    /\ \A i \in HostIdxs : reqFailed[i] = 0 /\ reqCount[i] = 1

C7_FetchFailureAborts ==
    FetchFailed =>
        /\ pc = "done"
        /\ ret = Return(fetchErr, <<>>)
        /\ readErr = Pending
        /\ appendErr = Pending
        /\ outputFile = fileAtStart
        /\ updateCalls = 0
        /\ requests = {}

C7_Witness ==
    /\ FetchFailed
    /\ attempts >= 2
    /\ fileAtStart.data # <<>>

\* C8 as stated: a fetch that fails on every attempt is attempted at most
\* MaxRetries times before the cycle reports its error.
C8_AsStated ==
    FetchFailed => attempts <= config.MaxRetries

\* C8, amended: it is attempted at most MaxRetries + 1 times, the first
\* attempt and at most MaxRetries retries (MaxRetries read as an unsigned
\* number), the cycle reports the error of the fetch, and the log is as it was.
C8_RetryExhaustion ==
    FetchFailed =>
        /\ attempts >= 1
        /\ attempts - 1 <= Uint64(config.MaxRetries)
        /\ config.MaxRetries >= 0 => attempts <= config.MaxRetries + 1
        /\ ret = Return(fetchErr, <<>>)
        /\ outputFile = fileAtStart

C8_Witness ==
    /\ FetchFailed
    /\ config.MaxRetries >= 1
    /\ attempts = config.MaxRetries + 1

\* C9: the update pass attempts every configured host, whatever happened to
\* the hosts before it: when the pass is over every host has received at
\* least one request, and during the pass every host before the current one.
C9_EveryHostAttempted ==
    /\ (pc = "done" /\ updateCalls = 1) => \A i \in HostIdxs : reqCount[i] >= 1
    /\ pc = "updateZonomiDNS" =>
          \A i \in HostIdxs : i < hostIdx => reqCount[i] >= 1 /\ hostErr[i] # Pending

C9_Witness ==
    /\ pc = "done"
    /\ Len(config.ZonomiHosts) = 2
    /\ hostErr[1] \notin {Pending, Nil}
    /\ reqCount[2] >= 1

\* C10: when all hosts have been attempted, updateZonomiDNS returns an error
\* exactly when a host failed after its retries, and the error lists the
\* failed hosts, each with its cause, and no host that succeeded.
C10_AggregateError ==
    (pc = "done" /\ updateCalls = 1) =>
        /\ ret.err # Nil <=> \E i \in HostIdxs : hostErr[i] # Nil
        /\ ret.err \in {Nil, "errors updating hosts"}
        /\ ret.hosts = FailedFrom(1)

C10_Witness ==
    /\ pc = "done"
    /\ updateCalls = 1
    /\ Len(config.ZonomiHosts) = 2
    /\ hostErr[1] \notin {Pending, Nil}
    /\ hostErr[2] = Nil

\* The number of attempts a RetryNotify that starts from the state `b` makes
\* when every attempt fails and takes `dur`.
RECURSIVE AttemptsFrom(_, _, _, _)
AttemptsFrom(maxTries, tries, b, dur) ==
    LET nb == NextBackOff(maxTries, tries, b, dur)
    IN IF nb.stop THEN 1 ELSE 1 + AttemptsFrom(maxTries, nb.numTries, nb.b, dur)
\* The attempts a fresh retry budget allows: the fewest (every attempt runs
\* into the client's timeout) and the most (every attempt fails at once).
FreshBudget ==
    AttemptsFrom(Uint64(config.MaxRetries), 0, Reset, ClientTimeout)
        .. AttemptsFrom(Uint64(config.MaxRetries), 0, Reset, 0)
\* The retry state after the first failed attempt of a fresh RetryNotify.
FreshAfterFirst ==
    {NextBackOff(Uint64(config.MaxRetries), 0, Reset, d).b : d \in Durations}

\* C11: every retried operation (the fetch and each host's update) runs on
\* a fresh retry budget, whatever the operations before it consumed: after
\* its first failed attempt the retry state is the one a new backoff would
\* have, and an operation that is given up has made the attempts a fresh
\* budget allows.
C11_FreshRetryBudget ==
    /\ (numTries = 1 /\ attempts = 1) => retryBackoff \in FreshAfterFirst
    /\ FetchFailed => attempts \in FreshBudget
    /\ \A i \in HostIdxs :
          hostErr[i] \notin {Pending, Nil} => reqCount[i] \in FreshBudget

C11_Witness ==
    /\ pc = "done"
    /\ Len(config.ZonomiHosts) = 2
    /\ reqFailed[1] = 2
    /\ hostErr[1] \notin {Pending, Nil}
    /\ retryBackoff.elapsed > 0
    /\ hostErr[2] \notin {Pending, Nil}
    /\ reqCount[2] = 2

\* context.Canceled
Canceled == "context canceled"

\* C12: once the context is cancelled during the wait between two attempts,
\* the retry loop makes no further attempt and the cycle returns the
\* cancellation error.
C12_AsStated ==
    [][ctxDone =>
          /\ ~(numTries > 0 /\ attempts' = attempts + 1)
          /\ (pc # "done" /\ pc' = "done") => ret'.err = Canceled]_vars

\* The retried operation that ran last is over and was given up.
GaveUp == numTries = 0 /\ lastErr \notin {Pending, Nil}
\* The errors the two operations return.
OperationErrors ==
    {FetchOperation(r).err : r \in IPifyResponses}
    \cup {ZonomiOperation(r) : r \in ZonomiResponses}

\* C13: a retried operation is not invoked again after it has succeeded: a
\* host whose update succeeded has received one request more than failed,
\* with no more failures than MaxRetries, and the loop has left it; a fetch
\* that succeeded ended with its first successful attempt.
C13_NoRetryAfterSuccess ==
    /\ \A i \in HostIdxs :
          hostErr[i] = Nil =>
              /\ reqCount[i] = reqFailed[i] + 1
              /\ reqFailed[i] <= Uint64(config.MaxRetries)
              /\ hostIdx > i
    /\ (fetchErr = Nil /\ pc \in {"readLastIP", "appendIP"}) =>
          /\ attempts = failed + 1
          /\ failed <= Uint64(config.MaxRetries)
          /\ lastErr = Nil

C13_Witness ==
    /\ pc = "done"
    /\ config.MaxRetries = 2
    /\ reqFailed[1] = 1
    /\ reqCount[1] = 2
    /\ hostErr[1] = Nil
    /\ ret = Return(Nil, <<>>)

\* C14: a retried operation that is given up returns the error of its last
\* attempt, which is an error of the operation: the fetch error FetchIP
\* returns, and the cause recorded for the host that was tried last.
C14_LastError ==
    /\ FetchFailed => fetchErr = lastErr /\ fetchErr \in OperationErrors
    /\ \A i \in HostIdxs :
          hostErr[i] \notin {Pending, Nil} =>
              /\ hostErr[i] \in OperationErrors
              /\ (hostIdx = i + 1 /\ numTries = 0
                    /\ (i = Len(config.ZonomiHosts) \/ reqCount[i + 1] = 0))
                  => hostErr[i] = lastErr

C14_Witness ==
    /\ pc = "done"
    /\ Len(config.ZonomiHosts) = 1
    /\ reqFailed[1] = 2
    /\ hostErr[1] = "Zonomi API request failed"
    /\ \E q \in requests : q.value = "2.2.2.2"

\* C15 as stated: the number of notifications of a retried operation equals
\* the number of its failed attempts.
C15_AsStated == notified = failed

\* C15, amended: a failed attempt is notified when it is followed by a
\* retry: the notifications are as many as the failed attempts while the
\* operation runs and when it succeeds, and one fewer when it is given up
\* (the last failure is returned, not notified).
C15_Notifications ==
    /\ notified = IF GaveUp THEN failed - 1 ELSE failed
    /\ attempts > 0 => notified = attempts - 1 + (IF numTries > 0 THEN 1 ELSE 0)

C15_Witness ==
    /\ GaveUp
    /\ failed = 3
    /\ notified = 2

ReadFailed == readErr \notin {Pending, Nil}
\* The address of the last line of the log that is one JSON object.
LastDecodable(file) == IF file.exists THEN ScanLastIP(Lines(file.data), "") ELSE ""
IsPrefix(a, b) == Len(a) <= Len(b) /\ SubSeq(b, 1, Len(a)) = a

\* C16: readLastIP returns the empty address and no error for a log that
\* does not exist and for one that is empty; an open that fails for another
\* reason and a read that fails are returned as errors, with the empty
\* address, so that the absent file (no error) is told from both.
C16_ReadLastIPErrors ==
    readErr # Pending =>
        /\ (readFault = "none" /\ (~fileAtStart.exists \/ fileAtStart.data = <<>>)) =>
              readErr = Nil /\ lastIP = ""
        /\ readFault = "open" => readErr = "failed to open log file" /\ lastIP = ""
        /\ readFault = "read" => readErr = "failed to read log file" /\ lastIP = ""

C16_Witness ==
    /\ pc = "appendIP"
    /\ ~fileAtStart.exists
    /\ readFault = "none"
    /\ readErr = Nil
    /\ newIP \in Addr

\* C17: when the storage does not fail, readLastIP returns, with no error,
\* the address of the last record of the log that decodes, whatever records
\* that do not decode come before or after it, and the empty address when
\* none decodes.
C17_AsStated ==
    (readErr # Pending /\ readFault = "none") =>
        readErr = Nil /\ lastIP = LastDecodable(fileAtStart)

\* C18: a readLastIP right after a successful appendIP(x) returns x,
\* whatever the log held before.
C18_AsStated ==
    (appendErr = Nil /\ pc \in {"updateZonomiDNS", "done"}) =>
        ReadLastIP(outputFile, "none") = [ip |-> newIP, err |-> Nil]

\* What a cycle has done to the log.
CycleAdds ==
    /\ IsPrefix(fileAtStart.data, outputFile.data)
    /\ (fetchErr = Nil /\ appendErr = Nil) => AppendedOne(newIP)
    /\ FetchFailed => outputFile = fileAtStart

\* C19: the log is append-only: every step leaves what the log holds as a
\* prefix of what it holds afterwards and never removes the file; a cycle
\* adds exactly one record when its fetch and its append succeed, and leaves
\* the log as it was when its fetch fails.
C19_AppendOnly ==
    [][/\ IsPrefix(outputFile.data, outputFile'.data)
       /\ outputFile.exists => outputFile'.exists
       /\ CycleAdds']_vars

C19_Witness ==
    /\ cycle = 2
    /\ pc = "done"
    /\ appendErr = Nil
    /\ Len(fileAtStart.data) = 4
    /\ fileAtStart.data[3].t = "obj"
    /\ Len(outputFile.data) = 6

\* C20 as stated: a cycle whose readLastIP failed appends the observation
\* and runs the update for every host.
C20_AsStated ==
    (pc = "done" /\ ReadFailed) =>
        /\ AppendedOne(newIP)
        /\ updateCalls = 1
        /\ \A i \in HostIdxs : reqCount[i] >= 1

\* C20, amended: a failure of readLastIP does not end the cycle and leaves
\* the last address empty: the cycle goes on to appendIP, and when the append
\* succeeds it runs the update for every host, as on a first run.
C20_ReadFailureDegrades ==
    ReadFailed =>
        /\ lastIP = ""
        /\ ret.err # readErr
        /\ pc = "done" => appendErr # Pending
        /\ (pc = "done" /\ appendErr = Nil) =>
              /\ AppendedOne(newIP)
              /\ updateCalls = 1
              /\ \A i \in HostIdxs : reqCount[i] >= 1

C20_Witness ==
    /\ pc = "done"
    /\ readErr = "failed to read log file"
    /\ newIP \in Addr
    /\ LastDecodable(fileAtStart) = newIP
    /\ appendErr = Nil
    /\ Len(config.ZonomiHosts) = 2
    /\ \A i \in HostIdxs : reqCount[i] >= 1

\* The cycle before this one fetched the address this one fetched, appended
\* it, and its update failed for a host.
SameAfterFailedPush ==
    /\ prevCycle.appended
    /\ prevCycle.updateFailed
    /\ fetchErr = Nil
    /\ newIP = prevCycle.ip

\* C21 as stated: every cycle that fetches the address B of the cycle
\* before, which appended B and failed to update a host, makes no DNS request.
C21_AsStated == SameAfterFailedPush => requests = {}

\* C21: a cycle that fetches the non-empty address B of the cycle before,
\* which appended B and failed to update a host, and that reads B back from
\* the log makes no DNS request and no call of updateZonomiDNS; a cycle makes a
\* DNS request only when readLastIP gave it no address or an address other
\* than the one it fetched.
C21_NoRetryOfFailedPush ==
    /\ (SameAfterFailedPush /\ newIP # "" /\ readErr = Nil /\ LastRecorded = newIP)
          => (requests = {} /\ updateCalls = 0)
    /\ requests # {} => (lastIP = "" \/ lastIP # newIP)

C21_Witness ==
    /\ SameAfterFailedPush
    /\ newIP \in Addr
    /\ readErr = Nil
    /\ LastRecorded = newIP
    /\ Len(prevCycle.ip) > 0
    /\ pc = "done"
    /\ ret = Return(Nil, <<>>)
    /\ requests = {}

\* The step is a GET for the host of the loop of updateZonomiDNS.
HostAttempt ==
    /\ pc = "updateZonomiDNS"
    /\ hostIdx \in HostIdxs
    /\ reqCount'[hostIdx] = reqCount[hostIdx] + 1

\* The attempt of the step counts as a success: the operation ends, the loop
\* goes to the next host, nothing is added to errs.
AttemptSucceeds ==
    /\ reqFailed'[hostIdx] = reqFailed[hostIdx]
    /\ hostErr'[hostIdx] = Nil
    /\ hostIdx' = hostIdx + 1
    /\ errs' = errs

\* The attempt of the step counts as a failure: it is retried, or the
\* operation gives up and the host is reported in errs.
AttemptFails ==
    /\ reqFailed'[hostIdx] = reqFailed[hostIdx] + 1
    /\ \/ hostIdx' = hostIdx /\ numTries' > 0 /\ errs' = errs
       \/ /\ hostErr'[hostIdx] \notin {Pending, Nil}
          /\ Len(errs') = Len(errs) + 1
          /\ errs'[Len(errs')].host = config.ZonomiHosts[hostIdx]

\* C22 as stated: an attempt fails exactly when the request cannot be sent
\* or the status is not 2xx; any 2xx status is a success.
C22_AsStated ==
    [][HostAttempt =>
         IF lastResp'.sent /\ lastResp'.status \in 200 .. 299
         THEN AttemptSucceeds ELSE AttemptFails]_vars

\* C22: an attempt for a host fails exactly when the request cannot be sent
\* or the response status is not 200; a response with status 200 is a
\* success, is not retried and is not reported in the aggregate error.
C22_OnlyStatusOK ==
    [][HostAttempt =>
         IF lastResp'.sent /\ lastResp'.status = StatusOK
         THEN AttemptSucceeds ELSE AttemptFails]_vars

C22_Witness ==
    /\ pc = "done"
    /\ \E i \in HostIdxs :
          /\ reqCount[i] > 0
          /\ hostErr[i] = "unexpected status"
          /\ i = Len(config.ZonomiHosts)
    /\ lastResp.sent
    /\ lastResp.status = 204
    /\ ret.err = "errors updating hosts"

\* C23 as stated: a fetch succeeds only on an answer with status 200 and a
\* readable body that is a document with the address, and it yields the
\* address of that document.
C23_AsStated ==
    (pc = "readLastIP" /\ fetchErr = Nil)
       => /\ lastResp.sent
          /\ lastResp.status = StatusOK
          /\ lastResp.readable
          /\ lastResp.body \in Addr
          /\ newIP = lastResp.body

\* C24: with an empty host list a call of updateZonomiDNS makes no request
\* and returns nil, which FetchIP returns.
C24_EmptyHostList ==
    (Len(config.ZonomiHosts) = 0 /\ updateCalls > 0)
       => /\ requests = {}
          /\ errs = <<>>
          /\ pc \in {"updateZonomiDNS", "done"}
          /\ pc = "done" => ret = Return(Nil, <<>>)

C24_Witness ==
    /\ Len(config.ZonomiHosts) = 0
    /\ updateCalls = 1
    /\ appendErr = Nil
    /\ pc = "done"
    /\ ret = Return(Nil, <<>>)
    /\ requests = {}

\* C25 as stated: at most one FetchIP invocation is running at any time.
C25_AsStated == active <= 1

\* C26: in run-once mode Run calls FetchIP once, returns when FetchIP has
\* returned, and returns what FetchIP returned, whatever the timezone and the
\* schedule time are and with no scheduler created; main exits with a
\* non-zero code exactly when the cycle failed.
C26_RunOnce ==
    sConfig.RunOnce
       => /\ sScheduler = "none"
          /\ fetchCalls <= 1
          /\ runPc = "FetchIP" => (fetchCalls = 1 /\ active = 1 /\ runRet = Pending)
          /\ runPc = "returned"
                => (fetchCalls = 1 /\ active = 0 /\ runRet = lastFetch /\ lastFetch \in FetchResults)
          /\ exitCode # -1 => (exitCode # 0 <=> lastFetch # Nil)

C26_Witness ==
    /\ sConfig.RunOnce
    /\ sConfig.Timezone \notin Locations
    /\ Len(sConfig.ScheduleTime) # 2
    /\ runPc = "returned"
    /\ fetchCalls = 1
    /\ runRet = "cycle failed"
    /\ exitCode = 1

\* The step is the return of a failed FetchIP in the task of the job.
TaskFails ==
    /\ ~sConfig.RunOnce
    /\ active' = active - 1
    /\ exitCode' = -1
    /\ lastFetch' \notin {Pending, Nil}

\* C27: in scheduled mode the error of a failing cycle is logged and Run goes
\* on waiting with the scheduler started; Run returns only once the context
\* is done, and then nil; after a failed cycle the job still starts FetchIP
\* when it falls due.
C27_FailureDoesNotStop ==
    /\ [][TaskFails => /\ logged' = logged + 1
                        /\ UNCHANGED <<runPc, runRet, sScheduler, fetchCalls>>]_vars
    /\ []((~sConfig.RunOnce /\ fetchCalls > 0 /\ runPc = "returned")
             => (ctxDone /\ runRet = Nil))
    /\ []((logged > 0 /\ sScheduler = "started" /\ exitCode = -1 /\ fetchCalls < MaxCycles)
             => ENABLED DailyJob)
    /\ []((logged > 0 /\ ~ctxDone) => (sScheduler = "started" /\ runPc = "waiting"))

C27_Witness ==
    /\ ~sConfig.RunOnce
    /\ logged = 1
    /\ lastFetch = "cycle failed"
    /\ fetchCalls = 2
    /\ active = 1
    /\ runPc = "waiting"
    /\ sScheduler = "started"
    /\ ~ctxDone

\* The ways the settings of the scheduled mode are invalid.
BadTimezone == sConfig.Timezone \notin Locations
BadFormat == Len(sConfig.ScheduleTime) # 2
BadNumber == ~BadFormat /\ \E i \in 1 .. 2 : ~sConfig.ScheduleTime[i].int
BadRange ==
    /\ ~BadFormat
    /\ ~BadNumber
    /\ \/ sConfig.ScheduleTime[1].val \notin 0 .. 23
       \/ sConfig.ScheduleTime[2].val \notin 0 .. 59

\* C28: in scheduled mode with a timezone that cannot be loaded or a
\* schedule time that is not two parts, not integers, or out of range, Run
\* returns an error, FetchIP is never called and no scheduler is started; with
\* a bad timezone the error is the timezone's, whatever the schedule time is.
C28_InvalidSettings ==
    (~sConfig.RunOnce /\ (BadTimezone \/ BadFormat \/ BadNumber \/ BadRange))
       => /\ fetchCalls = 0
          /\ active = 0
          /\ sScheduler = "none"
          /\ runPc \in {"init", "returned"}
          /\ runPc = "returned"
                => /\ runRet \notin {Pending, Nil}
                   /\ BadTimezone <=> runRet = "failed to load timezone"
          /\ exitCode \in {-1, 1}

C28_Witness ==
    /\ ~sConfig.RunOnce
    /\ BadTimezone
    /\ BadRange
    /\ runPc = "returned"
    /\ runRet = "failed to load timezone"
    /\ fetchCalls = 0
    /\ exitCode = 1

\* The cycle has made the first attempt of its fetch.
FirstAttemptMade == pc # "idle" /\ (pc = "fetchCurrentIP" => attempts > 0)

\* C29 as stated: a cycle starts with a Fetcher whose state, the log apart,
\* is that of a Fetcher just made.
C29_AsStated == (pc = "fetchCurrentIP" /\ attempts = 0) => retryBackoff = fresh.b

\* C29: from the first attempt of its fetch on, the retry state of a cycle is
\* the one of a Fetcher made for this cycle and given the same responses,
\* whatever the cycles before left in the backoff object; what the cycle
\* reads, requests, appends and returns is fixed by the log at its start and
\* by what the address source, the storage and the provider answered.
C29_CyclesIndependent ==
    /\ FirstAttemptMade => (retryBackoff = fresh.b /\ numTries = fresh.numTries)
    /\ readErr # Pending => lastIP = ReadLastIP(fileAtStart, readFault).ip
    /\ appendErr = Nil
          => /\ outputFile.data = WriteEntry(fileAtStart.data, newIP)
             /\ requests \subseteq
                  {Query(config.ZonomiHosts[i], newIP, config.ZonomiAPIKey) : i \in HostIdxs}
             /\ requests # {} => Changed(lastIP, newIP)
    /\ (pc = "done" /\ updateCalls > 0) => ret = UpdateResult(errs)

C29_Witness ==
    /\ cycle = 2
    /\ prevCycle.updateFailed
    /\ pc = "done"
    /\ failed > 0
    /\ updateCalls = 1
    /\ ret.err = Nil
    /\ retryBackoff = fresh.b

\* What the environment lacks.
HostsMissing == getEnv(env.ZONOMI_HOSTS, <<>>) = <<>>
APIKeyMissing == ~env.ZONOMI_API_KEY.set \/ env.ZONOMI_API_KEY.val = ""
EncryptionOn == env.ZONOMI_API_ENCRYPTED.set /\ env.ZONOMI_API_ENCRYPTED.val = "true"
EncryptionKeyMissing == ~env.ZONOMI_ENCRYPTION_KEY.set \/ env.ZONOMI_ENCRYPTION_KEY.val = ""

\* C30: config.New returns no Config with an error, and a Config with none;
\* without ZONOMI_HOSTS the error is that of the hosts, whatever else is
\* missing; with hosts and without ZONOMI_API_KEY it is that of the key; with
\* both and with encryption on and no encryption key it is that of the
\* encryption key.
C30_RequiredSettings ==
    newRet # NotCalled
       => /\ newRet.err # Nil <=> newRet.cfg = <<>>
          /\ HostsMissing => newRet.err = "ZONOMI_HOSTS is required"
          /\ (~HostsMissing /\ APIKeyMissing) => newRet.err = "ZONOMI_API_KEY is required"
          /\ (~HostsMissing /\ ~APIKeyMissing /\ EncryptionOn /\ EncryptionKeyMissing)
                => newRet.err
                     = "ZONOMI_ENCRYPTION_KEY is required when ZONOMI_API_ENCRYPTED is true"
          /\ newRet.err # Nil => exitCode = 1

C30_Witness ==
    /\ HostsMissing
    /\ APIKeyMissing
    /\ EncryptionOn
    /\ EncryptionKeyMissing
    /\ newRet = Failed("ZONOMI_HOSTS is required")
    /\ exitCode = 1

\* The characters of a string that are neither a comma nor a space, and the
\* number of its commas.
Letters(str) == SelectSeq(str, LAMBDA c : c \notin {",", " "})
Commas(str) == Len(SelectSeq(str, LAMBDA c : c = ","))

RECURSIVE Concat(_)
Concat(strs) == IF strs = <<>> THEN <<>> ELSE Head(strs) \o Concat(Tail(strs))

\* item is a run of consecutive characters of str.
IsPartOf(item, str) ==
    \E i \in 1 .. Len(str) + 1 : \E j \in i - 1 .. Len(str) : SubSeq(str, i, j) = item

\* The hosts of the Config that config.New returned.
LoadedHosts == newRet.cfg[1].ZonomiHosts

\* C31: when config.New succeeds ZonomiHosts has one item for each
\* comma-separated part of ZONOMI_HOSTS, in the order of the parts: each item
\* is a run of characters of the value without a comma and without a space at
\* either end, and the items together hold the characters of the value other
\* than commas and spaces, in order.
C31_LoadHosts ==
    newRet.err = Nil
       => LET str == env.ZONOMI_HOSTS.val
          IN /\ Len(LoadedHosts) = Commas(str) + 1
             /\ \A i \in 1 .. Len(LoadedHosts) :
                   LET item == LoadedHosts[i]
                   IN /\ IsPartOf(item, str)
                      /\ Commas(item) = 0
                      /\ item # <<>> => (item[1] # " " /\ item[Len(item)] # " ")
             /\ Letters(Concat(LoadedHosts)) = Letters(str)

C31_Witness ==
    /\ newRet.err = Nil
    /\ env.ZONOMI_HOSTS.val = <<"b", ",", " ", "b">>
    /\ LoadedHosts = << <<"b">>, <<"b">> >>

\* C38 as stated: no host of a Config that config.New returned is empty.
C38_AsStated ==
    newRet.err = Nil => \A i \in 1 .. Len(LoadedHosts) : LoadedHosts[i] # <<>>

\* C32 as stated: a cycle that appended left, at the end of the log, an
\* object with the keys "ip", holding the fetched address, and "timestamp",
\* and a newline after it.
C32_AsStated ==
    appendErr = Nil
       => /\ Len(outputFile.data) >= 2
          /\ SubSeq(outputFile.data, Len(outputFile.data) - 1, Len(outputFile.data))
                = <<Obj(newIP, "timestamp"), NL>>

\* The step is the read of the log, or the append, of a cycle.
ReadStep == readErr = Pending /\ readErr' # Pending
AppendStep == appendErr = Pending /\ appendErr' # Pending

\* C33: the read of a cycle follows its successful fetch and finds the log
\* as it was when the cycle started, nothing appended yet; the append follows
\* the read and leaves lastIP alone, and the decision taken after it uses the
\* address that read returned.
C33_ReadBeforeAppend ==
    [][/\ ReadStep
           => /\ fetchErr = Nil
              /\ appendErr = Pending
              /\ outputFile = fileAtStart
              /\ outputFile' = outputFile
              /\ lastIP' = ReadLastIP(fileAtStart, readFault').ip
       /\ AppendStep
           => /\ readErr # Pending
              /\ lastIP' = lastIP
              /\ lastIP = ReadLastIP(fileAtStart, readFault).ip
              /\ updateCalls' > updateCalls
                    <=> (appendErr' = Nil /\ (lastIP = "" \/ lastIP # newIP))]_vars

C33_Witness ==
    /\ pc = "done"
    /\ readErr = Nil
    /\ appendErr = Nil
    /\ lastIP \in Addr
    /\ newIP \in Addr
    /\ lastIP # newIP
    /\ LastDecodable(outputFile) = newIP
    /\ updateCalls = 1

\* The attempts the setting allows: the first and max(MaxRetries, 0) retries.
AttemptsAllowed == (IF config.MaxRetries > 0 THEN config.MaxRetries ELSE 0) + 1

\* C35 as stated: whatever MaxRetries is, no retried operation, the fetch or
\* the update of a host, is invoked more than max(MaxRetries, 0) + 1 times.
C35_AsStated ==
    /\ attempts <= AttemptsAllowed
    /\ \A i \in HostIdxs : reqCount[i] <= AttemptsAllowed

\* Run leaves <-ctx.Done().
RunUnblocks == runPc = "waiting" /\ runPc' # "waiting"

\* C36: in scheduled mode Run leaves its wait only on a cancelled context, and
\* then it has shut the scheduler down and returns nil, whether or not the
\* shutdown reported an error; once Run has returned no FetchIP invocation
\* starts.
C36_ShutdownOnCancel ==
    [][ /\ RunUnblocks => (ctxDone /\ sScheduler' = "shutdown"
                             /\ runPc' = "returned" /\ runRet' = Nil)
        /\ runPc = "returned" => fetchCalls' = fetchCalls ]_vars

\* The shutdown reported an error, the only event logged, and Run returned nil.
C36_Witness ==
    /\ ~sConfig.RunOnce
    /\ ctxDone
    /\ sScheduler = "shutdown"
    /\ runPc = "returned"
    /\ runRet = Nil
    /\ logged = 1
    /\ lastFetch \in {Pending, Nil}
    /\ fetchCalls > 0

\* f.logger.Info("Calling Zonomi API", "host", host, "url", urlStr): the
\* event carries the URL of the request, query string included.
Info_CallingZonomiAPI(host, ip, key) ==
    [level |-> "INFO", msg |-> "Calling Zonomi API", host |-> host,
     url |-> Query(host, ip, key)]

\* The events a cycle has logged about its requests to Zonomi, had the
\* configured API key been key and everything else the same.
ZonomiEvents(key) == {Info_CallingZonomiAPI(q.name, q.value, key) : q \in requests}

\* A credential other than the configured one.
OtherKey == "other-key"

\* C37 as stated: the events a cycle logs are the same for two runs that
\* differ only in the value of the configured API key.
C37_AsStated == ZonomiEvents(config.ZonomiAPIKey) = ZonomiEvents(OtherKey)

\* The attempts a RetryNotify makes, from an interval of cur after elapsed,
\* when nothing but MaxElapsedTime stops it and no attempt takes time.
RECURSIVE AttemptsWithin(_, _)
AttemptsWithin(cur, elapsed) ==
    IF elapsed + cur > MaxElapsedTime THEN 1
    ELSE 1 + AttemptsWithin(IncrementCurrentInterval(cur), elapsed + cur)

\* The most attempts one retried operation makes, whatever MaxRetries is.
AttemptsBound == AttemptsWithin(InitialInterval, 0)

\* A cycle is under way.
InCycle == pc \notin {"idle", "done"}

\* A cycle has made at most one fetch operation and one update operation for
\* each host, each of at most AttemptsBound attempts.
BoundedOperations ==
    /\ attempts <= AttemptsBound
    /\ \A i \in HostIdxs : reqCount[i] <= AttemptsBound
    /\ InCycle => hostIdx <= Len(config.ZonomiHosts) + 1

\* C34: provided every HTTP attempt returns, every cycle reaches its return,
\* after at most one retried operation for the fetch and one for each host,
\* each of a bounded number of attempts.
C34_CycleTerminates == []BoundedOperations /\ (InCycle ~> pc = "done")

\* A cycle with a negative MaxRetries returned after the update of its host
\* used up the time of MaxElapsedTime.
C34_Witness ==
    /\ pc = "done"
    /\ config.MaxRetries < 0
    /\ \E i \in HostIdxs : reqCount[i] = AttemptsBound
====
